---- MODULE Spec2Model ----
(***************************************************************************)
(* Model of src/main.py (apartment-agent): the listing harvester           *)
(* collect_listing_links, the filter passes_filters, the seen-set store    *)
(* load_seen / save_seen and the run of main().                            *)
(*                                                                         *)
(* Strings are modelled as sequences of tokens.  An href is a sequence of  *)
(* tokens: ItemPath stands for the text "/realestate/item/", a digit token *)
(* for one decimal digit, "?q" for a query string, "#f" for a fragment and *)
(* "x" for any other text.  An Optional value (None or a number) is a set  *)
(* with at most one element.  Room counts are counted in half rooms.       *)
(***************************************************************************)
EXTENDS Integers, Sequences, FiniteSets, TLC

VARIABLES
    pc,              \* position of the run in main(), "idle" outside main()
    run,             \* number of the current run of main()
    env_ok,          \* BOT_TOKEN and CHAT_ID are both set
    debug,           \* DEBUG == "1"
    cfg,             \* config.json
    page,            \* the anchors (hrefs) of the search page, in document order
    site,            \* listing id -> details parsed from its item page
    file,            \* .cache/seen.json: [kind, ids]
    seen,            \* main: seen
    links,           \* main: links
    new_links,       \* main: new_links
    a,               \* main: index of the current area in cfg["areas"]
    i,               \* main: index of the current item in new_links
    hits,            \* main: hits
    checked,         \* main: checked
    results_by_area, \* main: results_by_area
    k,               \* main: index of the current entry of results_by_area
    faults,          \* item fetches that failed in this run
    seen0,           \* history: the seen set as load_seen returned it
    added,           \* history: ids given to seen.add in this run
    sent,            \* history: the messages tg_send was called with in this run
    fetched,         \* history: ids whose item page fetch_html was called for
    item_fetches,    \* history: calls of fetch_html for item pages in the current area
    errors,          \* history: the errors raised in this run
    saved,           \* history: save_seen was called in this run
    prev,            \* history: how the previous run ended
    h_anchors,       \* harvester alone: the document
    h_result,        \* harvester alone: collect_listing_links(document)
    h_again,         \* harvester alone: a second harvest of the same document
    f_details,       \* filter alone: details
    f_cfg,           \* filter alone: cfg
    f_area,          \* filter alone: area_cfg
    f_result         \* filter alone: passes_filters(details, cfg, area_cfg)

main_vars == <<pc, run, env_ok, debug, cfg, page, site, file, seen, links, new_links,
               a, i, hits, checked, results_by_area, k, faults, seen0, added, sent,
               fetched, item_fetches, errors, saved, prev>>
h_vars == <<h_anchors, h_result, h_again>>
f_vars == <<f_details, f_cfg, f_area, f_result>>
vars == <<main_vars, h_vars, f_vars>>

(***************************************************************************)
(* Bounds of the model.                                                    *)
(***************************************************************************)
MaxAnchors == 3      \* anchors of a harvested document
MaxPage == 2         \* anchors of the search page of a run of main()
MaxVal == 2          \* largest price / rooms / floor value and filter bound
MaxAreas == 2        \* areas in cfg["areas"]
MaxRuns == 2         \* consecutive runs of main()
MaxItemFaults == 1   \* item page fetches that fail in one run

(***************************************************************************)
(* Program constants.                                                      *)
(***************************************************************************)
MaxLinks == 80       \* links = links[:80]
MaxChecks == 35      \* if checked >= 35: break
MaxHits == 10        \* hits[:10]

BASE == "https://www.yad2.co.il"
ItemPath == "/realestate/item/"

(***************************************************************************)
(* Helpers on sequences.                                                   *)
(***************************************************************************)
Range(s) == {s[j] : j \in 1..Len(s)}
Take(s, n) == SubSeq(s, 1, IF Len(s) < n THEN Len(s) ELSE n)
Min(S) == CHOOSE m \in S : \A n \in S : m <= n
SeqsUpTo(S, n) == UNION {[1..m -> S] : m \in 0..n}
Ids(ls) == {ls[j].id : j \in 1..Len(ls)}

DigitTokens == <<"0", "1", "2", "3", "4", "5", "6", "7", "8", "9">>
Digits == Range(DigitTokens)

(***************************************************************************)
(* collect_listing_links (src/main.py 89-108).                             *)
(***************************************************************************)
\* href.startswith("/realestate/item/")
StartsWithItemPath(href) == Len(href) >= 1 /\ href[1] = ItemPath

\* the positions where the pattern /realestate/item/(\d+) matches in href
MatchPositions(href) ==
    {p \in 1..(Len(href) - 1) : href[p] = ItemPath /\ href[p + 1] \in Digits}

\* the greedy group (\d+): the longest run of digits of href from position p
RECURSIVE DigitRun(_, _)
DigitRun(href, p) ==
    IF p <= Len(href) /\ href[p] \in Digits
    THEN <<href[p]>> \o DigitRun(href, p + 1)
    ELSE <<>>

\* re.search(r"/realestate/item/(\d+)", href): group 1 of the leftmost match,
\* <<>> when there is no match (a match never has an empty group)
ItemId(href) ==
    IF MatchPositions(href) = {} THEN <<>>
    ELSE DigitRun(href, Min(MatchPositions(href)) + 1)

\* urljoin(BASE, href) for an href that starts with a single "/": the base's
\* scheme and host followed by the href as it is, query and fragment included
UrlJoin(base, href) == <<base>> \o href

\* a dict assignment that moves an existing key to the end
DictSetMoveToEnd(d, key, value) ==
    SelectSeq(d, LAMBDA e : e.id # key) \o <<[id |-> key, link |-> value]>>

\* ids_to_link[item_id] = value on an insertion-ordered dict, kept as the
\* sequence of its items: an existing key keeps its place and gets the value
DictSet(d, key, value) ==
    IF \E j \in 1..Len(d) : d[j].id = key
    THEN [j \in 1..Len(d) |->
            IF d[j].id = key THEN [id |-> key, link |-> value] ELSE d[j]]
    ELSE Append(d, [id |-> key, link |-> value])

\* one pass of the loop body over anchor href, d being ids_to_link before it
HarvestAnchor(d, href) ==
    IF ~StartsWithItemPath(href) THEN d
    ELSE IF ItemId(href) = <<>> THEN d
    ELSE DictSet(d, ItemId(href), UrlJoin(BASE, href))

\* the loop over the anchors from anchor n on, d being ids_to_link so far
RECURSIVE IdsToLink(_, _, _)
IdsToLink(anchors, n, d) ==
    IF n > Len(anchors) THEN d
    ELSE LET nd == HarvestAnchor(d, anchors[n])
         IN  \* Len(nd) >= 0 is always true: it has the dict evaluated here, before
             \* the next anchor, so that long documents do not nest the evaluation
             IF Len(nd) >= 0 THEN IdsToLink(anchors, n + 1, nd) ELSE nd

collect_listing_links(anchors) == IdsToLink(anchors, 1, <<>>)

(***************************************************************************)
(* passes_filters (src/main.py 143-169).                                   *)
(***************************************************************************)
None == {}
Val(o) == CHOOSE v \in o : TRUE

\* a filter that reads an absent number as 0
passes_filters_none_as_zero(details, c, area_cfg) ==
    LET num(o) == IF o = None THEN 0 ELSE Val(o)
        text == details.neighborhood_text
        keys == area_cfg.neighborhood_keywords
    IN  /\ ~(num(details.price) < c.price_min \/ num(details.price) > c.price_max)
        /\ ~(num(details.rooms) < c.rooms_min \/ num(details.rooms) > c.rooms_max)
        /\ ~(num(details.floor) < c.min_floor)
        /\ ~(keys # {} /\ text # <<>> /\ ~\E key \in keys : key \in Range(text))

passes_filters(details, c, area_cfg) ==
    LET text == details.neighborhood_text
        keys == area_cfg.neighborhood_keywords
    IN  IF details.price # None
           /\ (Val(details.price) < c.price_min \/ Val(details.price) > c.price_max)
        THEN FALSE
        ELSE IF details.rooms # None
           /\ (Val(details.rooms) < c.rooms_min \/ Val(details.rooms) > c.rooms_max)
        THEN FALSE
        ELSE IF details.floor # None /\ Val(details.floor) < c.min_floor
        THEN FALSE
        ELSE IF keys # {} /\ text # <<>> /\ ~\E key \in keys : key \in Range(text)
        THEN FALSE
        ELSE TRUE

(***************************************************************************)
(* The seen-set store (src/main.py 25-36).                                 *)
(***************************************************************************)
\* a load that starts from nothing whatever the file holds
load_seen_forget(f) == [ok |-> TRUE, val |-> {}]

\* load_seen: the empty set without a file, set(json.load(f)) for a JSON list,
\* and an exception (JSONDecodeError, TypeError) for any other content
load_seen(f) ==
    IF f.kind = "missing" THEN [ok |-> TRUE, val |-> {}]
    ELSE IF f.kind = "list" THEN [ok |-> TRUE, val |-> f.ids]
    ELSE [ok |-> FALSE, val |-> {}]

\* save_seen: the file holds the sorted list of the members
save_seen(seen_set) == [kind |-> "list", ids |-> seen_set]

\* a filter that lets every link through
NewLinksAll(ls, seen_set) == ls

\* [x for x in links if x["id"] not in seen]
NewLinks(ls, seen_set) == SelectSeq(ls, LAMBDA x : x.id \notin seen_set)

(***************************************************************************)
(* The values the variables of main() have outside a run of main().        *)
(***************************************************************************)
NoCfg == [price_min |-> 0, price_max |-> 0, rooms_min |-> 0, rooms_max |-> 0,
          min_floor |-> 0, areas |-> <<>>]
NoDetails == [price |-> None, rooms |-> None, floor |-> None, neighborhood_text |-> <<>>]
NoArea == [title |-> 0, neighborhood_keywords |-> {}]
NoPrev == [outcome |-> "none", saved |-> FALSE, added |-> {}]

RunLocals ==
    /\ seen = {} /\ links = <<>> /\ new_links = <<>>
    /\ a = 0 /\ i = 0 /\ hits = <<>> /\ checked = 0
    /\ results_by_area = <<>> /\ k = 0 /\ faults = 0
    /\ seen0 = {} /\ added = {} /\ sent = <<>> /\ fetched = {}
    /\ item_fetches = 0 /\ errors = {} /\ saved = FALSE

MainIdle ==
    /\ run = 0 /\ env_ok = TRUE /\ debug = FALSE /\ cfg = NoCfg
    /\ page = <<>> /\ site = <<>> /\ file = [kind |-> "missing", ids |-> {}]
    /\ prev = NoPrev
    /\ RunLocals

HarvestIdle == h_anchors = <<>> /\ h_result = <<>> /\ h_again = <<>>
FilterIdle ==
    /\ f_details = NoDetails /\ f_cfg = NoCfg /\ f_area = NoArea /\ f_result = FALSE

(***************************************************************************)
(* The harvester on its own: every document of up to MaxAnchors anchors.   *)
(***************************************************************************)
ItemIds == {<<>>, <<"1">>, <<"2">>, <<"1", "2">>}
Tails == {<<>>, <<"?q">>, <<"#f">>, <<"?q", "#f">>, <<"x">>}
Hrefs ==
    {<<ItemPath>> \o d \o t : d \in ItemIds, t \in Tails}
        \cup {<<"x", "1">>, <<ItemPath, ItemPath, "1">>}

InitHarvest ==
    /\ pc = "h_start"
    /\ h_anchors \in SeqsUpTo(Hrefs, MaxAnchors)
    /\ h_result = <<>> /\ h_again = <<>>
    /\ MainIdle /\ FilterIdle

Harvest ==
    /\ pc = "h_start"
    /\ h_result' = collect_listing_links(h_anchors)
    /\ pc' = "h_once"
    /\ UNCHANGED <<run, env_ok, debug, cfg, page, site, file, seen, links, new_links,
                   a, i, hits, checked, results_by_area, k, faults, seen0, added, sent,
                   fetched, item_fetches, errors, saved, prev>>
    /\ UNCHANGED <<h_anchors, h_again, f_vars>>

HarvestAgain ==
    /\ pc = "h_once"
    /\ h_again' = collect_listing_links(h_anchors)
    /\ pc' = "h_twice"
    /\ UNCHANGED <<run, env_ok, debug, cfg, page, site, file, seen, links, new_links,
                   a, i, hits, checked, results_by_area, k, faults, seen0, added, sent,
                   fetched, item_fetches, errors, saved, prev>>
    /\ UNCHANGED <<h_anchors, h_result, f_vars>>

NextHarvest == Harvest \/ HarvestAgain
SpecHarvest == InitHarvest /\ [][NextHarvest]_vars

(***************************************************************************)
(* The filter on its own: every details record and configuration with      *)
(* values up to MaxVal.                                                    *)
(***************************************************************************)
Optionals == {None} \cup {{v} : v \in 0..MaxVal}
Texts == {<<>>, <<"w">>, <<"w", "k1">>}
KeywordSets == {{}, {"k1"}, {"k1", "k2"}}

InitFilter ==
    /\ pc = "f_start"
    /\ f_details \in [price : Optionals, rooms : Optionals, floor : Optionals,
                      neighborhood_text : Texts]
    /\ f_cfg \in [price_min : 0..MaxVal, price_max : 0..MaxVal, rooms_min : 0..MaxVal,
                  rooms_max : 0..MaxVal, min_floor : 0..MaxVal, areas : {<<>>}]
    /\ f_area \in [title : {1}, neighborhood_keywords : KeywordSets]
    /\ f_result = FALSE
    /\ MainIdle /\ HarvestIdle

ApplyFilter ==
    /\ pc = "f_start"
    /\ f_result' = passes_filters(f_details, f_cfg, f_area)
    /\ pc' = "f_done"
    /\ UNCHANGED <<run, env_ok, debug, cfg, page, site, file, seen, links, new_links,
                   a, i, hits, checked, results_by_area, k, faults, seen0, added, sent,
                   fetched, item_fetches, errors, saved, prev>>
    /\ UNCHANGED <<h_vars, f_details, f_cfg, f_area>>

NextFilter == ApplyFilter
SpecFilter == InitFilter /\ [][NextFilter]_vars

(***************************************************************************)
(* Claims about collect_listing_links.                                     *)
(***************************************************************************)
Harvested == pc \in {"h_once", "h_twice"}
Accepted(href) == StartsWithItemPath(href) /\ ItemId(href) # <<>>
AcceptedAt(id) ==
    {p \in 1..Len(h_anchors) : Accepted(h_anchors[p]) /\ ItemId(h_anchors[p]) = id}

\* C7: the harvested link of a listing depends on its item id only: it is the
\* same URL whichever anchor of that id the page holds, and it carries no query
\* string and no fragment.
C7_LinkFunctionOfId ==
    Harvested =>
        \A j \in 1..Len(h_result) :
            /\ "?q" \notin Range(h_result[j].link)
            /\ "#f" \notin Range(h_result[j].link)
            /\ \A p \in AcceptedAt(h_result[j].id) :
                  collect_listing_links(<<h_anchors[p]>>)[1].link = h_result[j].link

\* C8: the harvest has exactly one entry per distinct item id among the
\* accepted anchors, in the order of the first occurrence of each id in the
\* document, and a second harvest of the same document gives the same list.
C8_OnePerIdFirstOccurrenceOrder ==
    Harvested =>
        /\ \A m, n \in 1..Len(h_result) : m # n => h_result[m].id # h_result[n].id
        /\ Ids(h_result) =
              {ItemId(h_anchors[p]) : p \in {q \in 1..Len(h_anchors) : Accepted(h_anchors[q])}}
        /\ \A m, n \in 1..Len(h_result) :
              m < n => Min(AcceptedAt(h_result[m].id)) < Min(AcceptedAt(h_result[n].id))
        /\ pc = "h_twice" => h_again = h_result

\* a document id A, id B, id A again: two entries, A first
C8_Witness ==
    /\ pc = "h_twice"
    /\ Len(h_anchors) = 3
    /\ Len(h_result) = 2
    /\ Cardinality(AcceptedAt(h_result[1].id)) = 2
    /\ AcceptedAt(h_result[2].id) = {2}

(***************************************************************************)
(* Claims about passes_filters.                                            *)
(***************************************************************************)
PriceOut(d, c) == \E v \in d.price : v < c.price_min \/ v > c.price_max
RoomsOut(d, c) == \E v \in d.rooms : v < c.rooms_min \/ v > c.rooms_max
FloorLow(d, c) == \E v \in d.floor : v < c.min_floor
TextMismatch(d, ar) ==
    /\ ar.neighborhood_keywords # {}
    /\ d.neighborhood_text # <<>>
    /\ ar.neighborhood_keywords \cap Range(d.neighborhood_text) = {}

\* C9: a record with price, rooms and floor absent and an empty text passes
\* for every configuration, and a rejection is always caused by a value that
\* is present (or by a text that is present): an absent value never rejects.
C9_AbsentNeverRejects ==
    pc = "f_done" =>
        /\ (/\ f_details.price = None /\ f_details.rooms = None
            /\ f_details.floor = None /\ f_details.neighborhood_text = <<>>)
              => f_result = TRUE
        /\ f_result = FALSE =>
              \/ PriceOut(f_details, f_cfg)
              \/ RoomsOut(f_details, f_cfg)
              \/ FloorLow(f_details, f_cfg)
              \/ TextMismatch(f_details, f_area)

\* all absent, empty text, every bound above 0 and keywords configured
C9_Witness ==
    /\ pc = "f_done"
    /\ f_details = NoDetails
    /\ f_cfg.price_min > 0 /\ f_cfg.rooms_min > 0 /\ f_cfg.min_floor > 0
    /\ f_area.neighborhood_keywords # {}
    /\ f_result = TRUE

(***************************************************************************)
(* main() (src/main.py 172-238), one action per step of the run.           *)
(***************************************************************************)
HUnchanged == UNCHANGED <<h_vars, f_vars>>
World == <<env_ok, debug, cfg, page, site>>
MsgIds(msgs) == UNION {msgs[j].ids : j \in 1..Len(msgs)}

\* lines 173-180: the credentials are checked, config.json is read
Start ==
    /\ pc = "start"
    /\ IF env_ok
       THEN pc' = "load_seen" /\ errors' = errors
       ELSE pc' = "failed" /\ errors' = errors \cup {"env"}
    /\ UNCHANGED <<run, World, file, seen, links, new_links, a, i, hits, checked,
                   results_by_area, k, faults, seen0, added, sent, fetched,
                   item_fetches, saved, prev>>
    /\ HUnchanged

\* line 181: seen = load_seen(); an exception of load_seen ends the run
LoadSeen ==
    /\ pc = "load_seen"
    /\ LET r == load_seen(file)
       IN  IF r.ok
           THEN /\ seen' = r.val /\ seen0' = r.val
                /\ pc' = "fetch_search" /\ errors' = errors
           ELSE /\ seen' = seen /\ seen0' = seen0
                /\ pc' = "failed" /\ errors' = errors \cup {"load_seen"}
    /\ UNCHANGED <<run, World, file, links, new_links, a, i, hits, checked,
                   results_by_area, k, faults, added, sent, fetched,
                   item_fetches, saved, prev>>
    /\ HUnchanged

\* lines 183-195: the search page is fetched and harvested
FetchSearchOk ==
    /\ pc = "fetch_search"
    /\ links' = Take(collect_listing_links(page), MaxLinks)
    /\ new_links' = NewLinks(links', seen)
    /\ results_by_area' = <<>>
    /\ a' = 1
    /\ pc' = "areas"
    /\ UNCHANGED <<run, World, file, seen, i, hits, checked, k, faults, seen0, added,
                   sent, fetched, item_fetches, errors, saved, prev>>
    /\ HUnchanged

\* line 183: fetch_html(SEARCH_URL) raises, outside any try
FetchSearchFail ==
    /\ pc = "fetch_search"
    /\ pc' = "failed"
    /\ errors' = errors \cup {"fetch_search"}
    /\ UNCHANGED <<run, World, file, seen, links, new_links, a, i, hits, checked,
                   results_by_area, k, faults, seen0, added, sent, fetched,
                   item_fetches, saved, prev>>
    /\ HUnchanged

\* lines 197-199: the head of the loop over cfg["areas"]
AreaLoop ==
    /\ pc = "areas"
    /\ IF a <= Len(cfg.areas)
       THEN /\ hits' = <<>> /\ checked' = 0 /\ i' = 1 /\ item_fetches' = 0
            /\ pc' = "items"
       ELSE /\ UNCHANGED <<hits, checked, i, item_fetches>>
            /\ pc' = "debug"
    /\ UNCHANGED <<run, World, file, seen, links, new_links, a, results_by_area, k,
                   faults, seen0, added, sent, fetched, errors, saved, prev>>
    /\ HUnchanged

\* lines 201-208: the item page fetch (or its parse) raises: continue
ItemFetchFail ==
    /\ pc = "items"
    /\ i <= Len(new_links)
    /\ faults < MaxItemFaults
    /\ checked' = checked + 1
    /\ item_fetches' = item_fetches + 1
    /\ fetched' = fetched \cup {new_links[i].id}
    /\ faults' = faults + 1
    /\ errors' = errors \cup {"item_fetch"}
    /\ i' = i + 1
    /\ UNCHANGED <<pc, run, World, file, seen, links, new_links, a, hits,
                   results_by_area, k, seen0, added, sent, saved, prev>>
    /\ HUnchanged

\* lines 201-217: the item page is fetched, parsed and filtered
ItemFetchOk ==
    /\ pc = "items"
    /\ i <= Len(new_links)
    /\ checked' = checked + 1
    /\ item_fetches' = item_fetches + 1
    /\ fetched' = fetched \cup {new_links[i].id}
    /\ LET details == site[new_links[i].id]
       IN  hits' = IF passes_filters(details, cfg, cfg.areas[a])
                   THEN Append(hits, new_links[i])
                   ELSE hits
    /\ IF checked' >= MaxChecks
       THEN pc' = "area_end" /\ i' = i
       ELSE pc' = pc /\ i' = i + 1
    /\ UNCHANGED <<run, World, file, seen, links, new_links, a, results_by_area, k,
                   faults, seen0, added, sent, errors, saved, prev>>
    /\ HUnchanged

\* lines 219-220: after the items of an area, by exhaustion or by break
AreaEnd ==
    /\ \/ pc = "items" /\ i > Len(new_links)
       \/ pc = "area_end"
    /\ results_by_area' =
          IF hits # <<>>
          THEN Append(results_by_area,
                      [title |-> cfg.areas[a].title, hits |-> Take(hits, MaxHits)])
          ELSE results_by_area
    /\ a' = a + 1
    /\ pc' = "areas"
    /\ UNCHANGED <<run, World, file, seen, links, new_links, i, hits, checked, k,
                   faults, seen0, added, sent, fetched, item_fetches, errors, saved,
                   prev>>
    /\ HUnchanged

\* lines 222-224: the debug message; tg_send returns or raises
DebugSend ==
    /\ pc = "debug"
    /\ IF ~debug
       THEN /\ pc' = "dispatch" /\ UNCHANGED <<sent, errors>>
       ELSE /\ sent' = Append(sent, [kind |-> "debug", title |-> 0, ids |-> {}])
            /\ \E ok \in BOOLEAN :
                  IF ok THEN pc' = "dispatch" /\ errors' = errors
                  ELSE pc' = "failed" /\ errors' = errors \cup {"tg_send"}
    /\ k' = 1
    /\ UNCHANGED <<run, World, file, seen, links, new_links, a, i, hits, checked,
                   results_by_area, faults, seen0, added, fetched, item_fetches,
                   saved, prev>>
    /\ HUnchanged

\* lines 226-228: nothing passed the filters: one message, then return
NoResults ==
    /\ pc = "dispatch"
    /\ results_by_area = <<>>
    /\ sent' = Append(sent, [kind |-> "no_results", title |-> 0, ids |-> {}])
    /\ \E ok \in BOOLEAN :
          IF ok THEN pc' = "done" /\ errors' = errors
          ELSE pc' = "failed" /\ errors' = errors \cup {"tg_send"}
    /\ UNCHANGED <<run, World, file, seen, links, new_links, a, i, hits, checked,
                   results_by_area, k, faults, seen0, added, fetched, item_fetches,
                   saved, prev>>
    /\ HUnchanged

\* a dispatch that marks the listings as seen only once the message went out
DispatchAreaAddAfterSend ==
    /\ pc = "dispatch"
    /\ results_by_area # <<>>
    /\ k <= Len(results_by_area)
    /\ sent' = Append(sent, [kind |-> "hits", title |-> results_by_area[k].title,
                             ids |-> Ids(results_by_area[k].hits)])
    /\ \E ok \in BOOLEAN :
          IF ok
          THEN /\ seen' = seen \cup Ids(results_by_area[k].hits)
               /\ added' = added \cup Ids(results_by_area[k].hits)
               /\ pc' = pc /\ k' = k + 1 /\ errors' = errors
          ELSE /\ UNCHANGED <<seen, added>>
               /\ pc' = "failed" /\ k' = k /\ errors' = errors \cup {"tg_send"}
    /\ UNCHANGED <<run, World, file, links, new_links, a, i, hits, checked,
                   results_by_area, faults, seen0, fetched, item_fetches, saved, prev>>
    /\ HUnchanged

\* lines 230-236: one entry of results_by_area: its ids are added to seen,
\* then tg_send is called with its links and returns or raises
DispatchArea ==
    /\ pc = "dispatch"
    /\ results_by_area # <<>>
    /\ k <= Len(results_by_area)
    /\ seen' = seen \cup Ids(results_by_area[k].hits)
    /\ added' = added \cup Ids(results_by_area[k].hits)
    /\ sent' = Append(sent, [kind |-> "hits", title |-> results_by_area[k].title,
                             ids |-> Ids(results_by_area[k].hits)])
    /\ \E ok \in BOOLEAN :
          IF ok THEN pc' = pc /\ k' = k + 1 /\ errors' = errors
          ELSE pc' = "failed" /\ k' = k /\ errors' = errors \cup {"tg_send"}
    /\ UNCHANGED <<run, World, file, links, new_links, a, i, hits, checked,
                   results_by_area, faults, seen0, fetched, item_fetches, saved, prev>>
    /\ HUnchanged

\* line 238: save_seen(seen), reached only past the last message
SaveSeen ==
    /\ pc = "dispatch"
    /\ results_by_area # <<>>
    /\ k > Len(results_by_area)
    /\ file' = save_seen(seen)
    /\ saved' = TRUE
    /\ pc' = "done"
    /\ UNCHANGED <<run, World, seen, links, new_links, a, i, hits, checked,
                   results_by_area, k, faults, seen0, added, sent, fetched,
                   item_fetches, errors, prev>>
    /\ HUnchanged

Ended == pc \in {"done", "failed"}

\* the scheduler starts main() again: same configuration, same search page,
\* the seen-set file as the run before left it
NextRun ==
    /\ Ended
    /\ run < MaxRuns
    /\ run' = run + 1
    /\ prev' = [outcome |-> pc, saved |-> saved, added |-> added]
    /\ pc' = "start"
    /\ seen' = {} /\ links' = <<>> /\ new_links' = <<>>
    /\ a' = 0 /\ i' = 0 /\ hits' = <<>> /\ checked' = 0
    /\ results_by_area' = <<>> /\ k' = 0 /\ faults' = 0
    /\ seen0' = {} /\ added' = {} /\ sent' = <<>> /\ fetched' = {}
    /\ item_fetches' = 0 /\ errors' = {} /\ saved' = FALSE
    /\ UNCHANGED <<World, file>>
    /\ HUnchanged

(***************************************************************************)
(* The inputs of a run of main().                                          *)
(***************************************************************************)
Area(n) == [title |-> n,
            neighborhood_keywords |-> IF n % 2 = 1 THEN {"k1"} ELSE {}]
MainCfg(n) == [price_min |-> 1, price_max |-> 1, rooms_min |-> 1, rooms_max |-> 1,
               min_floor |-> 1, areas |-> [j \in 1..n |-> Area(j)]]

\* nothing extracted; in range but no keyword in the text; price out of range
MainDetails ==
    {NoDetails,
     [price |-> {1}, rooms |-> {1}, floor |-> {1}, neighborhood_text |-> <<"w">>],
     [price |-> {MaxVal}, rooms |-> None, floor |-> None, neighborhood_text |-> <<"w", "k1">>]}

MainHrefs == {<<ItemPath, "1">>, <<ItemPath, "1", "?q">>, <<ItemPath, "2">>, <<"x", "1">>}

Files == {[kind |-> "missing", ids |-> {}],
          [kind |-> "unparseable", ids |-> {}],
          [kind |-> "list", ids |-> {}],
          [kind |-> "list", ids |-> {<<"1">>}]}

Init ==
    /\ pc = "start"
    /\ run = 1
    /\ env_ok \in BOOLEAN
    /\ debug \in BOOLEAN
    /\ cfg \in {MainCfg(n) : n \in 0..MaxAreas}
    /\ page \in SeqsUpTo(MainHrefs, MaxPage)
    /\ site \in [Ids(collect_listing_links(page)) -> MainDetails]
    /\ file \in Files
    /\ prev = NoPrev
    /\ RunLocals
    /\ HarvestIdle /\ FilterIdle

NextOneRun ==
    \/ Start \/ LoadSeen \/ FetchSearchOk \/ FetchSearchFail \/ AreaLoop
    \/ ItemFetchFail \/ ItemFetchOk \/ AreaEnd \/ DebugSend \/ NoResults
    \/ DispatchArea \/ SaveSeen

Next == NextOneRun \/ NextRun

Spec == Init /\ [][Next]_vars

(***************************************************************************)
(* One run of main() on a long search page: one anchor per listing, ids 1  *)
(* to n in decimal, every item page with the same content.                 *)
(***************************************************************************)
RECURSIVE Dec(_)
Dec(n) == IF n < 10 THEN <<DigitTokens[n + 1]>>
          ELSE Dec(n \div 10) \o <<DigitTokens[(n % 10) + 1]>>

LongPage(n) == [j \in 1..n |-> <<ItemPath>> \o Dec(j)]

InitChecks ==
    /\ pc = "start"
    /\ run = 1
    /\ env_ok \in BOOLEAN
    /\ debug \in BOOLEAN
    /\ cfg \in {MainCfg(n) : n \in 0..MaxAreas}
    /\ page \in {LongPage(MaxChecks + 1), LongPage(MaxLinks + 1)}
    /\ \E d \in MainDetails : site = [id \in Ids(collect_listing_links(page)) |-> d]
    /\ file \in Files
    /\ prev = NoPrev
    /\ RunLocals
    /\ HarvestIdle /\ FilterIdle

SpecChecks == InitChecks /\ [][NextOneRun]_vars

(***************************************************************************)
(* Claims about main().                                                    *)
(***************************************************************************)
InPipeline == pc \in {"areas", "items", "area_end", "debug", "dispatch"}

\* C1 as stated: in a run that follows a complete run on the same page,
\* new_links is empty.
C1_SecondRunNothingNew ==
    (run >= 2 /\ prev.outcome = "done" /\ InPipeline) => new_links = <<>>

\* C1 amended: in a run that follows another run on the same page, new_links
\* holds exactly the harvested listings whose id is not in the seen-set file
\* the run before left, so no listing that the run before notified and saved
\* is new again; the listings it did not notify stay new.
C1_SecondRunNewAreUnsaved ==
    (run >= 2 /\ InPipeline) =>
        /\ Ids(new_links) = Ids(links) \ file.ids
        /\ prev.saved => Ids(new_links) \cap prev.added = {}

\* the first run notified and saved one listing and rejected another one
C1_Witness ==
    /\ run = 2 /\ pc = "areas"
    /\ prev.saved /\ prev.added # {}
    /\ prev.added \subseteq Ids(links)
    /\ new_links # <<>>

\* C2: when a run has ended, the ids added to the seen set in that run are
\* exactly the ids of the listings in the messages tg_send was called with,
\* also when the call raised.
C2_AddedIffNotified ==
    Ended => added = MsgIds(sent)

\* a run ended by a tg_send that raised on a message with listings
C2_Witness ==
    /\ pc = "failed"
    /\ "tg_send" \in errors
    /\ added # {}
    /\ sent[Len(sent)].kind = "hits"

\* C3: a listing whose id is in the loaded seen set is never fetched for
\* details and is in no message of the run.
C3_SeenNeverFetchedNorSent ==
    /\ seen0 \cap fetched = {}
    /\ seen0 \cap MsgIds(sent) = {}

\* the page holds a seen listing and a new one, which is fetched and notified
C3_Witness ==
    /\ seen0 \cap Ids(links) # {}
    /\ fetched # {}
    /\ MsgIds(sent) # {}
    /\ pc = "done"

\* C4: load_seen never raises: a file that is not a JSON list gives the empty
\* set and the run goes on.
C4_LoadSeenNeverFails ==
    "load_seen" \notin errors

\* C5: when a run has ended, every id added to the seen set in that run is in
\* the seen-set file.
C5_FileReflectsSeen ==
    Ended => (added \subseteq file.ids)

\* C6: an error of the search page fetch or of an item page fetch is reported
\* in a message and the run goes on through all the areas.
C6_FetchErrorReportedRunGoesOn ==
    (Ended /\ errors \cap {"fetch_search", "item_fetch"} # {}) =>
        /\ \E j \in 1..Len(sent) : sent[j].kind = "error"
        /\ a > Len(cfg.areas)

\* C10: no area has more than 35 item page fetches.
C10_AtMostMaxChecksFetches ==
    item_fetches <= MaxChecks

====
